---- MODULE Spec2Model ----
(***************************************************************************)
(* Model of the spreadsheet engine of mcp-azure-schools:                   *)
(*   data_sources/excel/excel_extractor.py  (ExcelExtractor: analysis,     *)
(*       header detection, validation, cleaning)                           *)
(*   shared/excel_extractor.py, processors/excel_extraction.py             *)
(*       (the two other ExcelExtractor classes and their public methods)   *)
(*                                                                         *)
(* A DataFrame is [cols, rows]: cols is the sequence of column labels,     *)
(* rows the sequence of [idx, cells], idx being the pandas index label     *)
(* (the position of the row in the frame as read).  A cell is a record     *)
(* [t, s, n]: t is the Python type of the value, s its text (str), n its   *)
(* number (int, bool).  None and NaN are the one value Null.               *)
(* A string that is inspected character by character (a column label) is   *)
(* a sequence of one-character strings.                                    *)
(***************************************************************************)
EXTENDS Integers, Sequences, FiniteSets, TLC

\* ------------------------------------------------------------------------
\* Bounds of the model
\* ------------------------------------------------------------------------
MaxRows == 2
MaxCols == 2
MaxSheetRows == 3
MaxSheetCols == 2
MaxCheck == 3
MaxSheets == 2
MaxFiles == 2

\* ------------------------------------------------------------------------
\* State
\* ------------------------------------------------------------------------
\* the cleaning / validation engine
VARIABLES
    df,        \* the DataFrame extracted from a sheet
    op,        \* the last engine call made on it
    arg,       \* the DataFrame that call received
    out,       \* the DataFrame that call returned
    raised,    \* TRUE iff that call raised
    report     \* the result of _validate_dataframe

\* one call of _detect_header_row (data_sources)
VARIABLES
    sheet,            \* the sheet it is called on
    max_check,        \* its max_check argument
    row,              \* the loop variable
    best_row,
    best_confidence,
    outcomes,         \* what happened to the candidates 0..row-1
    dpc               \* "loop", "done" (returned), "raised" (exception escaped)

\* the public operations of the three extractors
VARIABLES
    dir_exists,     \* the excel_files directory exists
    disk,           \* the files in it: file name -> workbook
    loaded_files,   \* processors ExcelExtractor.loaded_files
    call,           \* the last public operation called, with its arguments
    result,         \* the mapping it returned
    escaped,        \* TRUE iff an exception left the operation
    opened,         \* TRUE iff it called pd.ExcelFile or pd.read_excel
    detected        \* TRUE iff it called one of the header detectors

cleanVars == <<df, op, arg, out, raised, report>>
detectVars == <<sheet, max_check, row, best_row, best_confidence, outcomes, dpc>>
opsVars == <<dir_exists, disk, loaded_files, call, result, escaped, opened, detected>>
vars == <<cleanVars, detectVars, opsVars>>

\* ------------------------------------------------------------------------
\* Cells
\* ------------------------------------------------------------------------
Null == [t |-> "null", s |-> "", n |-> 0]
Str(x) == [t |-> "str", s |-> x, n |-> 0]
Int1(k) == [t |-> "int", s |-> "", n |-> k]
Bool(b) == [t |-> "bool", s |-> "", n |-> IF b THEN 1 ELSE 0]

IsNull(c) == c.t = "null"

\* Python's == on two cell values, as pandas' hashing of object values uses
\* it: None/NaN match each other, 1 == True, 0 == False, str by content.
PyEq(a, b) ==
    \/ IsNull(a) /\ IsNull(b)
    \/ a.t = "str" /\ b.t = "str" /\ a.s = b.s
    \/ a.t \in {"int", "bool"} /\ b.t \in {"int", "bool"} /\ a.n = b.n

\* ------------------------------------------------------------------------
\* Column labels
\* ------------------------------------------------------------------------
Multigrado == <<"M", "u", "l", "t", "i", "g", "r", "a", "d", "o">>
Unitaria == <<"U", "n", "i", "t", "a", "r", "i", "a">>
Bidocente == <<"B", "i", "d", "o", "c", "e", "n", "t", "e">>

\* flag_columns of _normalize_flags
flag_columns == <<Multigrado, Unitaria, Bidocente>>

Whitespace == {" ", "\t", "\n"}

RECURSIVE LStrip(_)
LStrip(s) ==
    IF s = <<>> THEN <<>>
    ELSE IF Head(s) \in Whitespace THEN LStrip(Tail(s)) ELSE s

RECURSIVE RStrip(_)
RStrip(s) ==
    IF s = <<>> THEN <<>>
    ELSE IF s[Len(s)] \in Whitespace THEN RStrip(SubSeq(s, 1, Len(s) - 1)) ELSE s

\* str.strip()
Strip(s) == RStrip(LStrip(s))

\* ------------------------------------------------------------------------
\* DataFrame helpers
\* ------------------------------------------------------------------------
EmptyFrame == [cols |-> <<>>, rows |-> <<>>]

NRows(t) == Len(t.rows)
NCols(t) == Len(t.cols)

Range(s) == {s[i] : i \in DOMAIN s}

\* the subsequence of s at the positions i, i+1, ... that are in keep, order
\* preserved
RECURSIVE Filter(_, _, _)
Filter(s, keep, i) ==
    IF i > Len(s) THEN <<>>
    ELSE (IF i \in keep THEN <<s[i]>> ELSE <<>>) \o Filter(s, keep, i + 1)

RowAllNull(r) == \A j \in DOMAIN r.cells : IsNull(r.cells[j])
ColAllNull(t, j) == \A i \in DOMAIN t.rows : IsNull(t.rows[i].cells[j])

RowEq(r1, r2) ==
    /\ Len(r1.cells) = Len(r2.cells)
    /\ \A j \in DOMAIN r1.cells : PyEq(r1.cells[j], r2.cells[j])

\* df.dropna(how='all')
DropEmptyRows(t) ==
    [t EXCEPT !.rows = SelectSeq(t.rows, LAMBDA r : ~RowAllNull(r))]

\* df.dropna(axis=1, how='any'): every column holding a null goes
DropColsWithAnyNull(t) ==
    LET keep == {j \in DOMAIN t.cols : \A i \in DOMAIN t.rows : ~IsNull(t.rows[i].cells[j])}
    IN [cols |-> Filter(t.cols, keep, 1),
        rows |-> [i \in DOMAIN t.rows |->
                    [t.rows[i] EXCEPT !.cells = Filter(t.rows[i].cells, keep, 1)]]]

\* df.dropna(axis=1, how='all')
DropEmptyCols(t) ==
    LET keep == {j \in DOMAIN t.cols : ~ColAllNull(t, j)}
    IN [cols |-> Filter(t.cols, keep, 1),
        rows |-> [i \in DOMAIN t.rows |->
                    [t.rows[i] EXCEPT !.cells = Filter(t.rows[i].cells, keep, 1)]]]

\* ------------------------------------------------------------------------
\* _standardize_null_values
\* ------------------------------------------------------------------------
\* a list that also holds other spellings of the markers
NullValuesAnyCase ==
    {"", " ", "N/A", "n/a", "NA", "na", "null", "NULL", "Null", "None", "NONE", "-", "--"}

null_values == {"", " ", "N/A", "n/a", "NA", "null", "NULL", "None", "-"}

StandardizeCell(c) == IF c.t = "str" /\ c.s \in null_values THEN Null ELSE c

_standardize_null_values(t) ==
    [t EXCEPT !.rows = [i \in DOMAIN t.rows |->
        [t.rows[i] EXCEPT !.cells =
            [j \in DOMAIN t.cols |-> StandardizeCell(t.rows[i].cells[j])]]]]

\* ------------------------------------------------------------------------
\* _normalize_flags
\* ------------------------------------------------------------------------
\* Series.map with the dict of lines 220-224: a value that is a key of the
\* dict is replaced by the dict's value (1 and True are the same key, so
\* are 0 and False); a value that is no key of the dict becomes NaN.
FlagMapStringKeysOnly(c) ==
    IF c.t = "str" /\ c.s \in {"Sí", "Si", "X", "1"} THEN Bool(TRUE)
    ELSE IF c.t = "str" /\ c.s \in {"No", "0"} THEN Bool(FALSE)
    ELSE Null

FlagMap(c) ==
    IF c.t = "str" /\ c.s \in {"Sí", "Si", "X", "1"} THEN Bool(TRUE)
    ELSE IF c.t \in {"int", "bool"} /\ c.n = 1 THEN Bool(TRUE)
    ELSE IF c.t = "str" /\ c.s \in {"No", "0"} THEN Bool(FALSE)
    ELSE IF c.t \in {"int", "bool"} /\ c.n = 0 THEN Bool(FALSE)
    ELSE Null

IsFlagColumn(name) == name \in Range(flag_columns)

_normalize_flags(t) ==
    [t EXCEPT !.rows = [i \in DOMAIN t.rows |->
        [t.rows[i] EXCEPT !.cells =
            [j \in DOMAIN t.cols |->
                IF IsFlagColumn(t.cols[j]) THEN FlagMap(t.rows[i].cells[j])
                ELSE t.rows[i].cells[j]]]]]

\* ------------------------------------------------------------------------
\* _clean_dataframe
\* ------------------------------------------------------------------------
\* cleaned.columns = [str(col).strip() for col in cleaned.columns]
TrimColumns(t) == [t EXCEPT !.cols = [j \in DOMAIN t.cols |-> Strip(t.cols[j])]]

\* df.duplicated(): row i is a duplicate iff an earlier row equals it
IsDuplicate(t, i) == \E k \in 1..(i - 1) : RowEq(t.rows[k], t.rows[i])

IndexLabel == <<"i", "n", "d", "e", "x">>

\* drop_duplicates().iloc[::-1]: the rows that remain, last first
DropDuplicatesReversed(t) ==
    LET kept == Filter(t.rows, {i \in DOMAIN t.rows : ~IsDuplicate(t, i)}, 1)
    IN [t EXCEPT !.rows = [i \in DOMAIN kept |-> kept[Len(kept) + 1 - i]]]

\* drop_duplicates(keep='last')
DropDuplicatesKeepLast(t) ==
    [t EXCEPT !.rows = Filter(t.rows,
        {i \in DOMAIN t.rows : ~\E k \in (i + 1)..Len(t.rows) : RowEq(t.rows[k], t.rows[i])}, 1)]

\* drop_duplicates().reset_index(): the old index comes back as a column
DropDuplicatesResetIndex(t) ==
    [cols |-> <<IndexLabel>> \o t.cols,
     rows |-> Filter([i \in DOMAIN t.rows |->
                        [t.rows[i] EXCEPT !.cells = <<Int1(t.rows[i].idx)>> \o t.rows[i].cells]],
                     {i \in DOMAIN t.rows : ~IsDuplicate(t, i)}, 1)]

\* df.drop_duplicates()
DropDuplicates(t) ==
    [t EXCEPT !.rows = Filter(t.rows, {i \in DOMAIN t.rows : ~IsDuplicate(t, i)}, 1)]

\* the table the pipeline hands to drop_duplicates (steps 1-4)
BeforeDedup(t) ==
    TrimColumns(_normalize_flags(_standardize_null_values(
        DropEmptyCols(DropEmptyRows(t)))))

_clean_dataframe(t) == DropDuplicates(BeforeDedup(t))

\* the caller's frame after the call, had _normalize_flags been given that
\* frame itself: its flag columns are overwritten
InputAfterCleanInPlace(t) == _normalize_flags(t)

\* the caller's frame after _clean_dataframe(t) returned: line 188 copies it,
\* dropna, replace and drop_duplicates return new frames, and the frame
\* _normalize_flags assigns into (line 226) is the one replace returned
InputAfterClean(t) == t

\* a flag label that occurs more than once makes df[col] a DataFrame, whose
\* .map rejects a dict (TypeError; AttributeError before pandas 2.1)
DuplicatedFlagLabel(t) ==
    \E c \in Range(flag_columns) : Cardinality({j \in DOMAIN t.cols : t.cols[j] = c}) > 1

\* ------------------------------------------------------------------------
\* _validate_dataframe, _calculate_quality_score
\* ------------------------------------------------------------------------
NullCells(t) ==
    Cardinality({<<i, j>> \in (DOMAIN t.rows) \X (DOMAIN t.cols) : IsNull(t.rows[i].cells[j])})
EmptyRows(t) == Cardinality({i \in DOMAIN t.rows : RowAllNull(t.rows[i])})
EmptyColumns(t) == Cardinality({j \in DOMAIN t.cols : ColAllNull(t, j)})
\* df.duplicated(keep=False).sum(): every row that has an equal row counts
DuplicateRowsKeepFalse(t) ==
    Cardinality({i \in DOMAIN t.rows : \E k \in DOMAIN t.rows : k # i /\ RowEq(t.rows[k], t.rows[i])})
DuplicateRows(t) == Cardinality({i \in DOMAIN t.rows : IsDuplicate(t, i)})
ColumnsWithNulls(t) ==
    Cardinality({j \in DOMAIN t.cols : \E i \in DOMAIN t.rows : IsNull(t.rows[i].cells[j])})

\* A score is the exact rational num/den; raised marks ZeroDivisionError.
\* With den = 10 * rows * cols the three penalties of lines 179-181, weighted
\* 0.4, 0.3, 0.3, are 4*nulls, 3*cols*duplicates and 3*cols*empty rows.
Score(a, b) == [raised |-> FALSE, num |-> a, den |-> b]
DivisionByZero == [raised |-> TRUE, num |-> 0, den |-> 1]

\* the score with the weights of the null and the duplicate penalty exchanged
QualityScoreSwappedWeights(t) ==
    IF NRows(t) = 0 THEN Score(0, 1)
    ELSE IF NRows(t) * NCols(t) = 0 THEN DivisionByZero
    ELSE LET den == 10 * NRows(t) * NCols(t)
             penalty == 3 * NullCells(t) + 4 * NCols(t) * DuplicateRows(t)
                        + 3 * NCols(t) * EmptyRows(t)
         IN  IF den - penalty < 0 THEN Score(0, den) ELSE Score(den - penalty, den)

QualityScoreNoEmptyGuard(t) ==
    IF NRows(t) * NCols(t) = 0 THEN DivisionByZero
    ELSE LET den == 10 * NRows(t) * NCols(t)
             penalty == 4 * NullCells(t) + 3 * NCols(t) * DuplicateRows(t)
                        + 3 * NCols(t) * EmptyRows(t)
         IN  IF den - penalty < 0 THEN Score(0, den) ELSE Score(den - penalty, den)

_calculate_quality_score(t) ==
    IF NRows(t) = 0 THEN Score(0, 1)
    ELSE IF NRows(t) * NCols(t) = 0 THEN DivisionByZero
    ELSE LET den == 10 * NRows(t) * NCols(t)
             penalty == 4 * NullCells(t) + 3 * NCols(t) * DuplicateRows(t)
                        + 3 * NCols(t) * EmptyRows(t)
         IN  IF den - penalty < 0 THEN Score(0, den) ELSE Score(den - penalty, den)

_validate_dataframe(t) ==
    [total_rows |-> NRows(t),
     total_columns |-> NCols(t),
     empty_rows |-> EmptyRows(t),
     empty_columns |-> EmptyColumns(t),
     duplicate_rows |-> DuplicateRows(t),
     columns_with_nulls |-> ColumnsWithNulls(t),
     data_quality_score |-> _calculate_quality_score(t)]

NoReport == _validate_dataframe(EmptyFrame)

\* ------------------------------------------------------------------------
\* The cleaning / validation engine as a state machine
\* ------------------------------------------------------------------------

\* Inputs: frames as pd.read_excel returns them (labels unique).
SmallCells == {Null, Str("N/A"), Str("Sí"), Str("quizas")}
FlagTrueTokens == {Str("Sí"), Str("Si"), Str("X"), Str("1"), Int1(1)}
FlagFalseTokens == {Str("No"), Str("0"), Int1(0)}
FlagDomain == FlagTrueTokens \cup FlagFalseTokens \cup {Null}
AllCells ==
    FlagDomain \cup {Str(x) : x \in null_values}
        \cup {Bool(TRUE), Bool(FALSE), Str("quizas"), Str("na"), Str("si"), Int1(2)}
        \cup {Str("Null"), Str("NONE"), Str("--")}

Labels == {Multigrado, <<" ">> \o Multigrado \o <<" ">>, <<"a">>}

ColSeqs(nc) == {c \in [1..nc -> Labels] : \A i, j \in 1..nc : c[i] = c[j] => i = j}

MkFrame(c, m) == [cols |-> c, rows |-> [i \in DOMAIN m |-> [idx |-> i, cells |-> m[i]]]]

\* frames of up to MaxRows x MaxCols cells over SmallCells, one-row and
\* one-column frames over AllCells, and the frame of an empty sheet
IsInputFrame(t) ==
    \/ \E nr \in 0..MaxRows, nc \in 1..MaxCols :
          \E c \in ColSeqs(nc), m \in [1..nr -> [1..nc -> SmallCells]] : t = MkFrame(c, m)
    \/ \E nc \in 1..MaxCols :
          \E c \in ColSeqs(nc), m \in [1..1 -> [1..nc -> AllCells]] : t = MkFrame(c, m)
    \/ \E nr \in 1..MaxRows :
          \E c \in ColSeqs(1), m \in [1..nr -> [1..1 -> AllCells]] : t = MkFrame(c, m)
    \/ t = EmptyFrame

\* cleaned = self._clean_dataframe(df)
CleanDataframe ==
    /\ op = "none"
    /\ op' = "clean"
    /\ arg' = df
    /\ out' = _clean_dataframe(df)
    /\ df' = InputAfterClean(df)
    /\ UNCHANGED <<raised, report>>
    /\ UNCHANGED <<detectVars, opsVars>>

\* self._clean_dataframe(cleaned): the cleaner applied to its own output
CleanAgain ==
    /\ op = "clean"
    /\ op' = "reclean"
    /\ arg' = out
    /\ IF DuplicatedFlagLabel(DropEmptyCols(DropEmptyRows(out)))
            /\ NRows(DropEmptyRows(out)) > 0
       THEN raised' = TRUE /\ out' = EmptyFrame
       ELSE raised' = FALSE /\ out' = _clean_dataframe(out)
    /\ UNCHANGED <<df, report>>
    /\ UNCHANGED <<detectVars, opsVars>>

\* self._validate_dataframe(df)
ValidateDataframe ==
    /\ op = "none"
    /\ op' = "validate"
    /\ arg' = df
    /\ report' = _validate_dataframe(df)
    /\ UNCHANGED <<df, out, raised>>
    /\ UNCHANGED <<detectVars, opsVars>>

\* self._normalize_flags(df): assigns the mapped columns into df itself and
\* returns it
NormalizeFlags ==
    /\ op = "none"
    /\ op' = "flags"
    /\ arg' = df
    /\ df' = _normalize_flags(df)
    /\ out' = _normalize_flags(df)
    /\ UNCHANGED <<raised, report>>
    /\ UNCHANGED <<detectVars, opsVars>>

\* self._standardize_null_values(df): df.replace returns a new frame
StandardizeNullValues ==
    /\ op = "none"
    /\ op' = "nulls"
    /\ arg' = df
    /\ out' = _standardize_null_values(df)
    /\ UNCHANGED <<df, raised, report>>
    /\ UNCHANGED <<detectVars, opsVars>>

NextClean ==
    \/ CleanDataframe
    \/ StandardizeNullValues
    \/ CleanAgain
    \/ ValidateDataframe
    \/ NormalizeFlags


\* ------------------------------------------------------------------------
\* pd.read_excel on one sheet
\* ------------------------------------------------------------------------
\* A sheet is the sequence of its rows, each a sequence of cells, all of the
\* same width.
SheetWidth(sh) == IF sh = <<>> THEN 0 ELSE Len(sh[1])

Unnamed == <<"U", "n", "n", "a", "m", "e", "d">>
Digits == <<"0", "1", "2", "3", "4", "5", "6", "7", "8", "9">>
Nombre == <<"N", "o", "m", "b", "r", "e">>

\* str.startswith
StartsWith(s, prefix) == Len(s) >= Len(prefix) /\ SubSeq(s, 1, Len(prefix)) = prefix

\* the label pandas derives from the header cell of column j (1-based here,
\* 0-based in the label): "Unnamed: <j>" for an empty cell, else the value
CellLabel(c, j) ==
    IF IsNull(c) THEN Unnamed \o <<":", " ", Digits[j]>>
    ELSE IF c.t = "str" THEN Nombre
    ELSE <<Digits[c.n + 1]>>

\* pandas makes repeated labels unique: the k-th repeat gets the suffix ".k"
HeaderLabels(hrow) ==
    [j \in DOMAIN hrow |->
        LET base == CellLabel(hrow[j], j)
            k == Cardinality({i \in 1..(j - 1) : CellLabel(hrow[i], i) = base})
        IN IF k = 0 THEN base ELSE base \o <<".", Digits[k + 1]>>]

Min(a, b) == IF a < b THEN a ELSE b

\* pd.read_excel(file_path, sheet_name=..., header=h, nrows=n) when the reader
\* does not fail; n = 0 stands for "no nrows argument".  A sheet without any
\* cell gives the empty frame; a header row past the last row raises.
ReadRaises(sh, h) == sh # <<>> /\ h >= Len(sh)

ReadExcel(sh, h, n) ==
    IF sh = <<>> THEN EmptyFrame
    ELSE LET last == IF n = 0 THEN Len(sh) ELSE Min(Len(sh), h + 1 + n)
         IN MkFrame(HeaderLabels(sh[h + 1]),
                    [i \in 1..(last - (h + 1)) |-> sh[h + 1 + i]])

\* ------------------------------------------------------------------------
\* _detect_header_row (data_sources)
\* ------------------------------------------------------------------------
SampleRows == 3

\* the dtype pandas infers for column j of a frame with at least one row
ColDtype(t, j) ==
    LET col == {t.rows[i].cells[j] : i \in DOMAIN t.rows}
    IN IF \E c \in col : c.t = "str" THEN "object"
       ELSE IF \A c \in col : c.t = "bool" THEN "bool"
       ELSE IF \E c \in col : c.t = "bool" THEN "object"
       ELSE IF \A c \in col : c.t = "int" THEN "int64"
       ELSE "float64"

Dtypes(t) == {ColDtype(t, j) : j \in DOMAIN t.cols}

UnnamedCount(t) == Cardinality({j \in DOMAIN t.cols : StartsWith(t.cols[j], Unnamed)})

\* A confidence is the exact rational num/den.
Rat(a, b) == [num |-> a, den |-> b]
Greater(x, y) == x.num * y.den > y.num * x.den

\* the three ratios of lines 125-137 added without their weights
ConfidenceUnweighted(t) ==
    LET w == NCols(t)
        n == NRows(t)
    IN IF n = 0 THEN Rat(w - UnnamedCount(t), w)
       ELSE Rat((w - UnnamedCount(t)) * n + Cardinality(Dtypes(t)) * n + (n * w - NullCells(t)),
                w * n)

\* the confidence without the len(df_test) > 0 tests of lines 130 and 135
\* (an empty sample has one dtype and counts as fully non-null)
ConfidenceNoEmptyGuard(t) ==
    LET w == NCols(t)
        n == NRows(t)
    IN IF n = 0 THEN Rat(4 * (w - UnnamedCount(t)) + 3 + 3 * w, 10 * w)
       ELSE Rat(4 * (w - UnnamedCount(t)) * n + 3 * Cardinality(Dtypes(t)) * n
                    + 3 * (n * w - NullCells(t)),
                10 * w * n)

\* lines 122-137 for a sample of w >= 2 columns and n rows, over 10*w*n:
\*   0.4 * (1 - unnamed/w)  +  0.3 * types/w  +  0.3 * non-null/(n*w)
Confidence(t) ==
    LET w == NCols(t)
        n == NRows(t)
    IN IF n = 0 THEN Rat(4 * (w - UnnamedCount(t)), 10 * w)
       ELSE Rat(4 * (w - UnnamedCount(t)) * n + 3 * Cardinality(Dtypes(t)) * n
                    + 3 * (n * w - NullCells(t)),
                10 * w * n)

ReplaceBestIfGreaterOrEqual(c, best) == ~Greater(best, c)

\* line 139: if confidence > best_confidence
ReplacesBest(c, best) == Greater(c, best)

ExceptHandlerReraises == "raise"

\* lines 143-144: except Exception: continue
ExceptHandler == "continue"


DetectCells == {Null, Str("Nombre"), Int1(7)}
TallCells == {Null, Str("Nombre")}

IsInputSheet(sh) ==
    \/ \E nr \in 0..MaxSheetRows, w \in 1..MaxSheetCols :
          sh \in [1..nr -> [1..w -> DetectCells]]
    \/ \E nr \in 1..(MaxSheetRows + 2), w \in 1..MaxSheetCols :
          sh \in [1..nr -> [1..w -> TallCells]]

Outcome(kind, t, c) ==
    [kind |-> kind, ncols |-> NCols(t), named |-> NCols(t) - UnnamedCount(t),
     nrows |-> NRows(t), conf |-> c]

\* the read of candidate `row` raises (a reader failure, or the header row
\* lies past the sheet); the handler decides what happens next
CandidateRaises ==
    /\ dpc = "loop" /\ row < max_check
    /\ outcomes' = Append(outcomes, Outcome("raise", EmptyFrame, Rat(0, 1)))
    /\ IF ExceptHandler = "continue"
       THEN row' = row + 1 /\ dpc' = dpc
       ELSE row' = row /\ dpc' = "raised"
    /\ UNCHANGED <<sheet, max_check, best_row, best_confidence>>
    /\ UNCHANGED <<cleanVars, opsVars>>

\* lines 118-119: fewer than 2 columns, continue
CandidateRejected ==
    /\ dpc = "loop" /\ row < max_check
    /\ ~ReadRaises(sheet, row)
    /\ LET df_test == ReadExcel(sheet, row, SampleRows)
       IN /\ NCols(df_test) < 2
          /\ outcomes' = Append(outcomes, Outcome("reject", df_test, Rat(0, 1)))
    /\ row' = row + 1
    /\ UNCHANGED <<sheet, max_check, best_row, best_confidence, dpc>>
    /\ UNCHANGED <<cleanVars, opsVars>>

\* lines 121-141: score the candidate and keep it if it beats the best
CandidateScored ==
    /\ dpc = "loop" /\ row < max_check
    /\ ~ReadRaises(sheet, row)
    /\ LET df_test == ReadExcel(sheet, row, SampleRows)
           confidence == Confidence(df_test)
       IN /\ NCols(df_test) >= 2
          /\ outcomes' = Append(outcomes, Outcome("scored", df_test, confidence))
          /\ IF ReplacesBest(confidence, best_confidence)
             THEN best_confidence' = confidence /\ best_row' = row
             ELSE UNCHANGED <<best_row, best_confidence>>
    /\ row' = row + 1
    /\ UNCHANGED <<sheet, max_check, dpc>>
    /\ UNCHANGED <<cleanVars, opsVars>>

\* line 146: return best_row, best_confidence
DetectReturn ==
    /\ dpc = "loop" /\ row = max_check
    /\ dpc' = "done"
    /\ UNCHANGED <<sheet, max_check, row, best_row, best_confidence, outcomes>>
    /\ UNCHANGED <<cleanVars, opsVars>>

NextDetect ==
    \/ CandidateRaises
    \/ CandidateRejected
    \/ CandidateScored
    \/ DetectReturn

\* ------------------------------------------------------------------------
\* Files and workbooks
\* ------------------------------------------------------------------------
\* A file name is [stem, suffix]; Path.suffix is the suffix field.
Suffixes == {".xlsx", ".XLS", ".xlsm", ".txt"}

\* str.lower() on the suffixes above
Lower(x) == IF x = ".XLS" THEN ".xls" ELSE x

Filenames ==
    {[stem |-> "datos", suffix |-> ".xlsx"], [stem |-> "VIEJO", suffix |-> ".XLS"],
     [stem |-> "macro", suffix |-> ".xlsm"], [stem |-> "notas", suffix |-> ".txt"]}

\* filename = None
NoFilename == [stem |-> "", suffix |-> ""]

\* Sheets of a workbook.  fails says which reads of the sheet raise: "never",
\* "always", or "full" (only a read without nrows, e.g. a cell the reader
\* cannot decode below the sampled rows).
GridHeader0 == << <<Str("Nombre"), Str("Nombre")>>, <<Str("Nombre"), Int1(7)>> >>
GridHeader1 ==
    << <<Null, Null>>, <<Str("Nombre"), Str("Nombre")>>, <<Int1(7), Int1(7)>>, <<Int1(7), Int1(7)>> >>
GridOneColumn == << <<Str("Nombre")>>, <<Int1(7)>> >>

GridMixedHeader == << <<Str("Nombre"), Int1(7)>>, <<Str("Nombre"), Int1(7)>> >>
\* a header row and nothing below it
GridHeaderOnly == << <<Str("Nombre"), Str("Nombre")>> >>

SheetKinds ==
    {[grid |-> GridHeader0, fails |-> "never"],
     [grid |-> GridMixedHeader, fails |-> "never"],
     [grid |-> GridHeader1, fails |-> "never"],
     [grid |-> GridOneColumn, fails |-> "never"],
     [grid |-> GridHeaderOnly, fails |-> "never"],
     [grid |-> GridHeader0, fails |-> "always"],
     [grid |-> GridHeader0, fails |-> "full"]}

SheetNames == <<"Hoja1", "Hoja2", "Hoja3", "Hoja4">>

\* A workbook: opens is FALSE when pd.ExcelFile / pd.read_excel cannot open
\* the file at all (not a spreadsheet, corrupt, password-protected).
Unreadable == [opens |-> FALSE, sheets |-> <<>>]

Workbooks(n) ==
    {Unreadable} \cup UNION {{[opens |-> TRUE, sheets |-> ss] : ss \in [1..k -> SheetKinds]} : k \in 1..n}

\* ------------------------------------------------------------------------
\* data_sources ExcelExtractor: analysis of a file
\* ------------------------------------------------------------------------
DefaultMaxCheck == 10
AnalysisSampleRows == 10

\* _detect_header_row as a function of the sheet, for a reader that does not
\* fail: the loop of lines 109-144 from candidate r on
RECURSIVE DetectLoop(_, _, _, _, _)
DetectLoop(sh, r, mc, br, bc) ==
    IF r >= mc THEN <<br, bc>>
    ELSE IF ReadRaises(sh, r) THEN DetectLoop(sh, r + 1, mc, br, bc)
    ELSE LET df_test == ReadExcel(sh, r, SampleRows)
         IN IF NCols(df_test) < 2 THEN DetectLoop(sh, r + 1, mc, br, bc)
            ELSE IF ReplacesBest(Confidence(df_test), bc)
                 THEN DetectLoop(sh, r + 1, mc, r, Confidence(df_test))
                 ELSE DetectLoop(sh, r + 1, mc, br, bc)

_detect_header_row(sh, mc) == DetectLoop(sh, 0, mc, 0, Rat(0, 1))

\* _estimate_total_rows: rows of the sheet that are not entirely empty; the
\* read has no nrows, and a failure of it is caught and gives 0
_estimate_total_rows(sd) ==
    IF sd.fails # "never" THEN 0
    ELSE Cardinality({i \in DOMAIN sd.grid : \E j \in DOMAIN sd.grid[i] : ~IsNull(sd.grid[i][j])})

SheetError == [is_valid |-> FALSE, error |-> "read failure"]

\* _analyze_sheet with is_valid computed from the rows of the sample only
AnalyzeSheetRowsOnly(sd) ==
    IF sd.fails = "always" THEN SheetError
    ELSE LET d == _detect_header_row(sd.grid, DefaultMaxCheck)
         IN IF ReadRaises(sd.grid, d[1]) THEN SheetError
            ELSE LET sample_df == ReadExcel(sd.grid, d[1], AnalysisSampleRows)
                 IN [is_valid |-> NRows(sample_df) > 0,
                     header_row |-> d[1],
                     header_confidence |-> d[2],
                     columns |-> sample_df.cols,
                     estimated_rows |-> _estimate_total_rows(sd)]

\* _analyze_sheet: when the reader fails on the sheet every candidate of the
\* detector is skipped, the sample read of line 82 raises and the handler of
\* lines 98-102 builds the error entry
_analyze_sheet(sd) ==
    IF sd.fails = "always" THEN SheetError
    ELSE LET d == _detect_header_row(sd.grid, DefaultMaxCheck)
         IN IF ReadRaises(sd.grid, d[1]) THEN SheetError
            ELSE LET sample_df == ReadExcel(sd.grid, d[1], AnalysisSampleRows)
                 IN [is_valid |-> NCols(sample_df) > 1 /\ NRows(sample_df) > 0,
                     header_row |-> d[1],
                     header_confidence |-> d[2],
                     columns |-> sample_df.cols,
                     estimated_rows |-> _estimate_total_rows(sd)]

\* the sheet names of a workbook, in order
NamesOf(wb) == [i \in DOMAIN wb.sheets |-> SheetNames[i]]

\* the loop of lines 68-71 left at the first sheet whose analysis fails
AnalyzeFileStructureStopsAtFailure(wb) ==
    LET bad == {i \in DOMAIN wb.sheets : wb.sheets[i].fails = "always"}
        done == {i \in DOMAIN wb.sheets : \A k \in bad : i <= k}
    IN [total_sheets |-> Len(wb.sheets),
        sheets |-> [nm \in {SheetNames[i] : i \in done} |->
                      _analyze_sheet(wb.sheets[CHOOSE i \in DOMAIN wb.sheets : SheetNames[i] = nm])]]

\* _analyze_file_structure for a workbook that opens
_analyze_file_structure(wb) ==
    [total_sheets |-> Len(wb.sheets),
     sheets |-> [nm \in Range(NamesOf(wb)) |->
                    _analyze_sheet(wb.sheets[CHOOSE i \in DOMAIN wb.sheets : SheetNames[i] = nm])]]

\* _extract_sheet_data raises when the un-capped read of the sheet fails
ExtractRaises(sd) == sd.fails # "never"

\* the entry of sheets_data for one valid sheet (lines 35-39)
SheetData(sd, header_row) ==
    LET frame == ReadExcel(sd.grid, header_row, 0)
    IN [dataframe |-> InputAfterClean(frame),
        validated |-> _validate_dataframe(frame),
        cleaned |-> _clean_dataframe(frame)]

valid_extensions == {".xlsx", ".xls"}

\* _validate_file
_validate_file(dk, f) == f \in DOMAIN dk /\ Lower(f.suffix) \in valid_extensions

MsgInvalid == "Archivo inválido"
MsgNotFound == "Archivo <filename> no encontrado"
MsgException == "<str(e)>"

\* ------------------------------------------------------------------------
\* shared ExcelExtractor: header detectors
\* ------------------------------------------------------------------------
SharedMaxCheck == 5

\* the loop of _detect_header_row / _detect_header_row_for_sheet (shared) from
\* candidate r on, reading n sample rows; the try encloses the whole loop, so
\* the first read that raises ends it with 0
RECURSIVE SharedDetectLoop(_, _, _)
SharedDetectLoop(sd, r, n) ==
    IF r >= SharedMaxCheck THEN 0
    ELSE IF sd.fails = "always" \/ ReadRaises(sd.grid, r) THEN 0
    ELSE LET df_test == ReadExcel(sd.grid, r, n)
         IN IF NCols(df_test) > 1 /\ 10 * UnnamedCount(df_test) < 3 * NCols(df_test)
            THEN r
            ELSE SharedDetectLoop(sd, r + 1, n)

\* _detect_header_row(file_path): first sheet of the file, nrows=2
SharedDetectHeaderRow(wb) ==
    IF ~wb.opens THEN 0 ELSE SharedDetectLoop(wb.sheets[1], 0, 2)

\* _detect_header_row_for_sheet(file_path, sheet_name): nrows=3
_detect_header_row_for_sheet(sd) == SharedDetectLoop(sd, 0, 3)

\* pd.read_excel(file_path, sheet, header=h, nrows=n) raises
SheetReadRaises(sd, h, n) ==
    \/ sd.fails = "always"
    \/ sd.fails = "full" /\ n = 0
    \/ ReadRaises(sd.grid, h)

\* The same loop step by step, on a reader that may fail on any candidate.
\* The two detectors differ in nrows (2 and 3) only.
SharedSampleRows == {2, 3}

\* lines 113-116 / 183-187: more than one column, under 30% 'Unnamed'
SharedQualifies(t) == NCols(t) > 1 /\ 10 * UnnamedCount(t) < 3 * NCols(t)

SharedOutcome(kind) == Outcome(kind, EmptyFrame, Rat(0, 1))

\* the read of candidate `row` raises: the except of lines 119-120 /
\* 190-191 is outside the loop and returns 0
SharedCandidateRaises ==
    /\ dpc = "loop" /\ row < max_check
    /\ outcomes' = Append(outcomes, SharedOutcome("raise"))
    /\ best_row' = 0
    /\ dpc' = "done"
    /\ UNCHANGED <<sheet, max_check, row, best_confidence>>
    /\ UNCHANGED <<cleanVars, opsVars>>

\* return row
SharedCandidateQualifies ==
    /\ dpc = "loop" /\ row < max_check
    /\ ~ReadRaises(sheet, row)
    /\ \E n \in SharedSampleRows : SharedQualifies(ReadExcel(sheet, row, n))
    /\ outcomes' = Append(outcomes, SharedOutcome("qualify"))
    /\ best_row' = row
    /\ dpc' = "done"
    /\ UNCHANGED <<sheet, max_check, row, best_confidence>>
    /\ UNCHANGED <<cleanVars, opsVars>>

\* the candidate does not qualify: next row
SharedCandidatePassed ==
    /\ dpc = "loop" /\ row < max_check
    /\ ~ReadRaises(sheet, row)
    /\ \E n \in SharedSampleRows : ~SharedQualifies(ReadExcel(sheet, row, n))
    /\ outcomes' = Append(outcomes, SharedOutcome("pass"))
    /\ row' = row + 1
    /\ UNCHANGED <<sheet, max_check, best_row, best_confidence, dpc>>
    /\ UNCHANGED <<cleanVars, opsVars>>

\* line 118 / 189: return 0 after the loop
SharedDetectReturn ==
    /\ dpc = "loop" /\ row = max_check
    /\ best_row' = 0
    /\ dpc' = "done"
    /\ UNCHANGED <<sheet, max_check, row, best_confidence, outcomes>>
    /\ UNCHANGED <<cleanVars, opsVars>>

NextSharedDetect ==
    \/ SharedCandidateRaises
    \/ SharedCandidateQualifies
    \/ SharedCandidatePassed
    \/ SharedDetectReturn

\* ------------------------------------------------------------------------
\* processors ExcelExtractor: labels of the frame it reads
\* ------------------------------------------------------------------------
NaNLabel == <<"nan">>

\* the label of column j is a str unless the header cell is a number that
\* pandas did not have to rename
LabelIsStr(hrow, j) ==
    \/ hrow[j].t # "int"
    \/ \E i \in 1..(j - 1) : CellLabel(hrow[i], i) = CellLabel(hrow[j], j)

\* df.columns.str.strip(): strips the str labels, NaN for the others
StrStripColumns(t, hrow) ==
    [t EXCEPT !.cols = [j \in DOMAIN t.cols |->
        IF LabelIsStr(hrow, j) THEN Strip(t.cols[j]) ELSE NaNLabel]]

\* ------------------------------------------------------------------------
\* The public operations as a state machine
\* ------------------------------------------------------------------------

NoHeader == -1
HeaderArgs == {NoHeader, 0, 1}
\* max_rows: 0 stands for None, 20 is the default
MaxRowsArgs == {0, 20}

Call(obj, method, f, mr, h) ==
    [obj |-> obj, method |-> method, filename |-> f, max_rows |-> mr, header_row |-> h]

NoCall == Call("none", "none", NoFilename, 0, NoHeader)
NoResult == [none |-> TRUE]

RECURSIVE SumSheets(_, _)
SumSheets(dk, fs) ==
    IF fs = {} THEN 0
    ELSE LET f == CHOOSE x \in fs : TRUE
         IN Len(dk[f].sheets) + SumSheets(dk, fs \ {f})

IsDisk(dk) ==
    \E present \in SUBSET Filenames :
        /\ Cardinality(present) <= MaxFiles
        /\ present # {} => dk \in [present -> Workbooks(MaxSheets + 1 - Cardinality(present))]
        /\ present = {} => dk = <<>>
        /\ SumSheets(dk, present) <= MaxSheets

Others == UNCHANGED <<cleanVars, detectVars>>

\* if not header_row: a header_row of 0 counts as absent too
HeaderFalsy(h) == h = NoHeader \/ h = 0

\* shared extract_excel_data, line 81: if header_row is None
HeaderAbsent(h) == h = NoHeader

\* the call c reaches a call of a header detector:
\*   data_sources extract_all_data  -> _analyze_sheet line 79, once the file
\*                                     passed _validate_file and opened
\*   shared extract_excel_data      -> line 82, for an existing file
\*   shared analyze_excel_structure -> line 150, for each sheet of a file
\*                                     that opened
\*   the processors extractor and list_excel_files have no detector
InvokesDetection(c, dk) ==
    \/ /\ c.obj = "data_sources"
       /\ _validate_file(dk, c.filename)
       /\ dk[c.filename].opens
    \/ /\ c.obj = "shared" /\ c.method = "extract_excel_data"
       /\ c.filename \in DOMAIN dk
       /\ HeaderAbsent(c.header_row)
    \/ /\ c.obj = "shared" /\ c.method = "analyze_excel_structure"
       /\ c.filename \in DOMAIN dk
       /\ dk[c.filename].opens

\* an operation is entered when no result is pending and leaves its result
Returns(c, r, o) ==
    /\ call = NoCall
    /\ call' = c
    /\ result' = r
    /\ opened' = o
    /\ detected' = InvokesDetection(c, disk)
    /\ escaped' = FALSE

\* --- data_sources ExcelExtractor.extract_all_data ------------------------
\* the valid sheets whose table also reaches the full quality score
ValidSheetsQualityGate(wb) ==
    {i \in DOMAIN wb.sheets :
        /\ _analyze_sheet(wb.sheets[i]).is_valid
        /\ LET rep == _validate_dataframe(
                          ReadExcel(wb.sheets[i].grid, _analyze_sheet(wb.sheets[i]).header_row, 0))
           IN rep.data_quality_score.num = rep.data_quality_score.den}

ValidSheets(wb) == {i \in DOMAIN wb.sheets : _analyze_sheet(wb.sheets[i]).is_valid}

DSExtractResult(dk, f) ==
    IF ~_validate_file(dk, f) THEN [status |-> "error", error |-> MsgInvalid]
    ELSE IF ~dk[f].opens THEN [status |-> "error", error |-> MsgException]
    ELSE LET wb == dk[f]
             structure == _analyze_file_structure(wb)
         IN IF \E i \in ValidSheets(wb) : ExtractRaises(wb.sheets[i])
            THEN [status |-> "error", error |-> MsgException]
            ELSE [status |-> "success",
                  filename |-> f,
                  structure |-> structure,
                  data |-> [nm \in {SheetNames[i] : i \in ValidSheets(wb)} |->
                              LET i == CHOOSE k \in DOMAIN wb.sheets : SheetNames[k] = nm
                              IN SheetData(wb.sheets[i], structure.sheets[nm].header_row)]]

DS_extract_all_data ==
    /\ \E f \in Filenames :
          Returns(Call("data_sources", "extract_all_data", f, 0, NoHeader),
                  DSExtractResult(disk, f), _validate_file(disk, f))
    /\ UNCHANGED <<dir_exists, disk, loaded_files>>
    /\ Others

\* --- shared ExcelExtractor ------------------------------------------------
\* glob("*.xlsx") + glob("*.xls"): the pattern is matched as written
SharedListed(dk) == {f \in DOMAIN dk : f.suffix \in {".xlsx", ".xls"}}

Shared_list_excel_files ==
    /\ IF ~dir_exists
       THEN /\ dir_exists' = TRUE
            /\ Returns(Call("shared", "list_excel_files", NoFilename, 0, NoHeader),
                       [status |-> "directory_created", message |-> "Directorio creado"], FALSE)
       ELSE /\ dir_exists' = dir_exists
            /\ Returns(Call("shared", "list_excel_files", NoFilename, 0, NoHeader),
                       IF SharedListed(disk) = {}
                       THEN [status |-> "no_files", message |-> "No se encontraron archivos Excel"]
                       ELSE [status |-> "success",
                             total_files |-> Cardinality(SharedListed(disk)),
                             files |-> SharedListed(disk)],
                       FALSE)
    /\ UNCHANGED <<disk, loaded_files>>
    /\ Others

SharedExtractResult(dk, f, mr, h) ==
    IF f \notin DOMAIN dk THEN [status |-> "error", error |-> MsgNotFound]
    ELSE LET wb == dk[f]
             header_row == IF HeaderAbsent(h) THEN SharedDetectHeaderRow(wb) ELSE h
         IN IF ~wb.opens \/ SheetReadRaises(wb.sheets[1], header_row, mr)
            THEN [status |-> "error", error |-> MsgException]
            ELSE LET frame == TrimColumns(ReadExcel(wb.sheets[1].grid, header_row, mr))
                 IN [status |-> "success",
                     filename |-> f,
                     header_row_used |-> header_row + 1,
                     rows_extracted |-> NRows(frame),
                     total_columns |-> NCols(frame),
                     columns |-> frame.cols]

Shared_extract_excel_data ==
    /\ \E f \in Filenames, mr \in MaxRowsArgs, h \in HeaderArgs :
          Returns(Call("shared", "extract_excel_data", f, mr, h),
                  SharedExtractResult(disk, f, mr, h),
                  f \in DOMAIN disk)
    /\ UNCHANGED <<dir_exists, disk, loaded_files>>
    /\ Others

\* the sheet entry _analyze_specific_file builds (lines 150-173)
SharedSheetInfo(sd) ==
    LET h == _detect_header_row_for_sheet(sd)
        frame == ReadExcel(sd.grid, h, 0)
    IN [detected_header_row |-> h + 1,
        total_columns |-> NCols(frame),
        columns |-> frame.cols,
        sample_data_rows |-> NRows(frame)]

SharedAnalyzeResult(dk, f) ==
    IF f = NoFilename THEN [status |-> "no_data", message |-> "No hay archivos cargados en memoria"]
    ELSE IF f \notin DOMAIN dk THEN [status |-> "error", error |-> MsgNotFound]
    ELSE IF ~dk[f].opens THEN [status |-> "error", error |-> MsgException]
    ELSE LET wb == dk[f]
         IN IF \E i \in DOMAIN wb.sheets :
                   SheetReadRaises(wb.sheets[i], _detect_header_row_for_sheet(wb.sheets[i]), 0)
            THEN [status |-> "error", error |-> MsgException]
            ELSE [status |-> "success",
                  filename |-> f,
                  total_sheets |-> Len(wb.sheets),
                  sheets |-> [nm \in Range(NamesOf(wb)) |->
                      SharedSheetInfo(wb.sheets[CHOOSE i \in DOMAIN wb.sheets : SheetNames[i] = nm])]]

Shared_analyze_excel_structure ==
    /\ \E f \in Filenames \cup {NoFilename} :
          Returns(Call("shared", "analyze_excel_structure", f, 0, NoHeader),
                  SharedAnalyzeResult(disk, f),
                  f \in DOMAIN disk)
    /\ UNCHANGED <<dir_exists, disk, loaded_files>>
    /\ Others

\* --- processors ExcelExtractor --------------------------------------------
Proc_list_excel_files ==
    /\ IF ~dir_exists
       THEN /\ dir_exists' = TRUE
            /\ Returns(Call("processors", "list_excel_files", NoFilename, 0, NoHeader),
                       [error |-> "Directorio excel_files creado - agregar archivos Excel"], FALSE)
       ELSE /\ dir_exists' = dir_exists
            /\ Returns(Call("processors", "list_excel_files", NoFilename, 0, NoHeader),
                       [directory |-> "excel_files",
                        total_files |-> Cardinality({f \in DOMAIN disk : f.suffix = ".xlsx"}),
                        files |-> {f \in DOMAIN disk : f.suffix = ".xlsx"}],
                       FALSE)
    /\ UNCHANGED <<disk, loaded_files>>
    /\ Others

\* line 55 raises: the file does not open or the read of its first sheet fails
ProcReadRaises(wb, mr, h) == ~wb.opens \/ SheetReadRaises(wb.sheets[1], h, mr)

\* line 56 raises: .str on labels that are all numbers
ProcStripRaises(hrow) == \A j \in DOMAIN hrow : ~LabelIsStr(hrow, j)

\* line 67 raises: col.lower() on a label that .str.strip() turned into NaN
ProcLowerRaises(hrow) == \E j \in DOMAIN hrow : ~LabelIsStr(hrow, j)

\* the frame of lines 55-56
ProcFrame(wb, mr, h) ==
    StrStripColumns(ReadExcel(wb.sheets[1].grid, h, mr), wb.sheets[1].grid[h + 1])

Proc_extract_excel_data ==
    /\ \E f \in Filenames, mr \in MaxRowsArgs \ {0}, h \in HeaderArgs \ {NoHeader} :
          LET c == Call("processors", "extract_excel_data", f, mr, h)
              failed == [error |-> "Error extrayendo datos: <str(e)>"]
          IN IF f \notin DOMAIN disk
             THEN /\ Returns(c, [error |-> MsgNotFound], FALSE)
                  /\ UNCHANGED loaded_files
             ELSE IF ProcReadRaises(disk[f], mr, h)
                     \/ ProcStripRaises(disk[f].sheets[1].grid[h + 1])
             THEN /\ Returns(c, failed, TRUE)
                  /\ UNCHANGED loaded_files
             ELSE LET frame == ProcFrame(disk[f], mr, h)
                      stored == [x \in (DOMAIN loaded_files) \cup {f} |->
                                    IF x = f THEN [data |-> frame] ELSE loaded_files[x]]
                  IN /\ loaded_files' = stored
                     /\ IF ProcLowerRaises(disk[f].sheets[1].grid[h + 1])
                        THEN Returns(c, failed, TRUE)
                        ELSE Returns(c,
                                     [filename |-> f,
                                      extraction_successful |-> TRUE,
                                      rows_extracted |-> NRows(frame),
                                      total_columns |-> NCols(frame),
                                      columns |-> frame.cols,
                                      loaded_in_memory |-> TRUE],
                                     TRUE)
    /\ UNCHANGED <<dir_exists, disk>>
    /\ Others

ProcAnalyzeResult(dk, lf, f) ==
    IF f = NoFilename
    THEN IF DOMAIN lf = {}
         THEN [message |-> "No hay archivos cargados. Usa extract_excel_data() primero"]
         ELSE [loaded_files_count |-> Cardinality(DOMAIN lf),
               files_in_memory |-> [x \in DOMAIN lf |->
                   [rows |-> NRows(lf[x].data), columns |-> NCols(lf[x].data)]]]
    ELSE IF f \notin DOMAIN dk THEN [error |-> MsgNotFound]
    ELSE IF ~dk[f].opens \/ \E i \in DOMAIN dk[f].sheets : SheetReadRaises(dk[f].sheets[i], 0, 0)
         THEN [error |-> "Error analizando estructura: <str(e)>"]
    ELSE [filename |-> f,
          total_sheets |-> Len(dk[f].sheets),
          sheet_names |-> NamesOf(dk[f]),
          sheets_analysis |-> [nm \in Range(NamesOf(dk[f])) |->
              LET i == CHOOSE k \in DOMAIN dk[f].sheets : SheetNames[k] = nm
                  frame == ReadExcel(dk[f].sheets[i].grid, 0, 0)
              IN [rows |-> NRows(frame), columns |-> NCols(frame), column_names |-> frame.cols]]]

Proc_analyze_excel_structure ==
    /\ \E f \in Filenames \cup {NoFilename} :
          Returns(Call("processors", "analyze_excel_structure", f, 0, NoHeader),
                  ProcAnalyzeResult(disk, loaded_files, f),
                  f \in DOMAIN disk)
    /\ UNCHANGED <<dir_exists, disk, loaded_files>>
    /\ Others

\* the caller (a tool wrapper) takes the result; the extractor objects stay
NextRequest ==
    /\ call # NoCall
    /\ call' = NoCall
    /\ result' = NoResult
    /\ escaped' = FALSE
    /\ opened' = FALSE
    /\ detected' = FALSE
    /\ UNCHANGED <<dir_exists, disk, loaded_files>>
    /\ Others

NextOps ==
    \/ NextRequest
    \/ DS_extract_all_data
    \/ Shared_list_excel_files
    \/ Shared_extract_excel_data
    \/ Shared_analyze_excel_structure
    \/ Proc_list_excel_files
    \/ Proc_extract_excel_data
    \/ Proc_analyze_excel_structure

\* ------------------------------------------------------------------------
\* Specifications
\* ------------------------------------------------------------------------
CleanIdle ==
    /\ op = "none"
    /\ arg = EmptyFrame
    /\ out = EmptyFrame
    /\ raised = FALSE
    /\ report = NoReport

DetectIdle ==
    /\ sheet = <<>>
    /\ max_check = 1
    /\ row = 0
    /\ best_row = 0
    /\ best_confidence = Rat(0, 1)
    /\ outcomes = <<>>
    /\ dpc = "idle"

OpsIdle ==
    /\ loaded_files = <<>>
    /\ call = NoCall
    /\ result = NoResult
    /\ escaped = FALSE
    /\ opened = FALSE
    /\ detected = FALSE

InitClean ==
    /\ IsInputFrame(df)
    /\ CleanIdle
    /\ DetectIdle
    /\ OpsIdle
    /\ dir_exists = TRUE /\ disk = <<>>

InitDetect ==
    /\ df = EmptyFrame /\ CleanIdle
    /\ OpsIdle
    /\ dir_exists = TRUE /\ disk = <<>>
    /\ IsInputSheet(sheet)
    /\ max_check \in 1..MaxCheck
    /\ row = 0
    /\ best_row = 0
    /\ best_confidence = Rat(0, 1)
    /\ outcomes = <<>>
    /\ dpc = "loop"

InitOps ==
    /\ df = EmptyFrame /\ CleanIdle
    /\ DetectIdle
    /\ dir_exists \in BOOLEAN
    /\ IsDisk(disk)
    /\ ~dir_exists => disk = <<>>
    /\ OpsIdle

\* the cleaner and validator applied to a frame
SpecClean == InitClean /\ [][NextClean]_vars

\* one call of _detect_header_row
SpecDetect == InitDetect /\ [][NextDetect]_vars

\* calls of the public operations on a directory of files
SpecSharedDetect == InitDetect /\ [][NextSharedDetect]_vars

SpecOps == InitOps /\ [][NextOps]_vars

\* ------------------------------------------------------------------------
\* Properties of the cleaner and the validator
\* ------------------------------------------------------------------------
Cells(t) == [i \in DOMAIN t.rows |-> t.rows[i].cells]
SameFrame(t1, t2) == t1.cols = t2.cols /\ Cells(t1) = Cells(t2)

FlagCells(t) == {<<i, j>> \in (DOMAIN t.rows) \X (DOMAIN t.cols) : IsFlagColumn(t.cols[j])}

\* C1: cleaning the output of _clean_dataframe again returns a table equal to
\* that output (same columns, rows and cell values), without raising.
C1_CleanIdempotent ==
    op = "reclean" => ~raised /\ SameFrame(out, arg)

\* C2: the output of _clean_dataframe has no two element-wise equal rows, and
\* a row of the table handed to drop_duplicates is in the output exactly
\* when no earlier row of that table equals it.
C2_DedupKeepsFirst ==
    op = "clean" =>
        /\ \A i, k \in DOMAIN out.rows : RowEq(out.rows[i], out.rows[k]) => i = k
        /\ LET mid == BeforeDedup(arg)
           IN \A i \in DOMAIN mid.rows :
                (mid.rows[i] \in Range(out.rows))
                    <=> ~\E k \in 1..(i - 1) : RowEq(mid.rows[k], mid.rows[i])

C2_Witness ==
    /\ op = "clean"
    /\ NRows(out) > 0
    /\ NRows(out) < NRows(BeforeDedup(arg))

\* C3: _clean_dataframe returns at most as many rows and at most as many
\* columns as it was given.
C3_CleanNeverGrows ==
    op = "clean" => NRows(out) <= NRows(arg) /\ NCols(out) <= NCols(arg)

C3_Witness ==
    /\ op = "clean"
    /\ NRows(arg) = MaxRows /\ NCols(arg) = MaxCols
    /\ NRows(out) = NRows(arg) /\ NCols(out) = NCols(arg)

\* C4: the quality score is computed without a division by zero, lies in
\* [0, 1], and is exactly 0 for a table with zero rows.
C4_QualityScoreBounds ==
    op = "validate" =>
        LET q == report.data_quality_score
        IN /\ ~q.raised
           /\ q.den > 0
           /\ 0 <= q.num /\ q.num <= q.den
           /\ (NRows(arg) = 0 => q.num = 0)

C4_Witness ==
    /\ op = "validate"
    /\ NRows(arg) = 0
    /\ NCols(arg) > 0
    /\ report.data_quality_score = Score(0, 1)

\* C5: in a designated flag column _normalize_flags turns "Sí", "Si", "X",
\* "1" and 1 into true, "No", "0" and 0 into false, and null into null.
C5_FlagTotalOnDomain ==
    op = "flags" =>
        \A p \in FlagCells(arg) :
            LET c == arg.rows[p[1]].cells[p[2]]
                r == out.rows[p[1]].cells[p[2]]
            IN /\ c \in FlagTrueTokens => r = Bool(TRUE)
               /\ c \in FlagFalseTokens => r = Bool(FALSE)
               /\ IsNull(c) => IsNull(r)

C5_Witness ==
    /\ op = "flags"
    /\ \E p \in FlagCells(arg) :
          /\ arg.rows[p[1]].cells[p[2]] = Int1(1)
          /\ out.rows[p[1]].cells[p[2]] = Bool(TRUE)

\* C6: in a designated flag column _normalize_flags leaves a value outside
\* the flag domain as it is.
C6_FlagOutsideDomainKept ==
    op = "flags" =>
        \A p \in FlagCells(arg) :
            LET c == arg.rows[p[1]].cells[p[2]]
            IN c \notin FlagDomain \cup {Bool(TRUE), Bool(FALSE)}
                  => out.rows[p[1]].cells[p[2]] = c

\* ------------------------------------------------------------------------
\* Properties of _detect_header_row
\* ------------------------------------------------------------------------
Skipped(o) == o.kind \in {"raise", "reject"}

\* a candidate that adds nothing to the confidence: skipped, or accepted with
\* only "Unnamed..." labels and an empty sample
ZeroScore(o) == Skipped(o) \/ (o.named = 0 /\ o.nrows = 0)

Fallback == best_row = 0 /\ best_confidence.num = 0

\* C7: no exception leaves _detect_header_row, and when every candidate row
\* raised on read or was rejected for having fewer than 2 columns the result
\* is (0, 0.0).
C7_DetectNeverRaises ==
    /\ dpc # "raised"
    /\ dpc = "done" /\ (\A i \in DOMAIN outcomes : Skipped(outcomes[i])) => Fallback

C7_Witness ==
    /\ dpc = "done"
    /\ \A i \in DOMAIN outcomes : Skipped(outcomes[i])
    /\ \E i \in DOMAIN outcomes : outcomes[i].kind = "raise"
    /\ \E i \in DOMAIN outcomes : outcomes[i].kind = "reject"

\* C8 as stated: when no candidate row has at least 2 columns with real
\* (not "Unnamed...") names, the result is (0, 0.0).
C8_FewRealNamesGivesFallback ==
    dpc = "done" /\ (\A i \in DOMAIN outcomes : outcomes[i].named < 2) => Fallback

\* C8 amended: the result is (0, 0.0) exactly when every candidate row
\* raised, had fewer than 2 columns, or had only "Unnamed..." columns and no
\* sampled row.
C8_FallbackExactly ==
    dpc = "done" => (Fallback <=> \A i \in DOMAIN outcomes : ZeroScore(outcomes[i]))

C8_Witness ==
    /\ dpc = "done"
    /\ Fallback
    /\ \E i \in DOMAIN outcomes : outcomes[i].kind = "scored"
    /\ \E i \in DOMAIN outcomes : outcomes[i].kind = "raise"

\* ------------------------------------------------------------------------
\* Properties of the public operations
\* ------------------------------------------------------------------------
Extraction ==
    \/ call.obj = "data_sources" /\ call.method = "extract_all_data"
    \/ call.obj = "shared" /\ call.method = "extract_excel_data"

\* C9: extraction of a file name that is not in the directory returns status
\* "error" with a message saying the file was not found, raises nothing and
\* opens nothing.
C9_MissingFileNotFound ==
    Extraction /\ call.filename \notin DOMAIN disk =>
        /\ ~escaped
        /\ ~opened
        /\ "status" \in DOMAIN result
        /\ result.status = "error"
        /\ result.error = MsgNotFound

\* C10: every public operation returns a mapping with a 'status' key and lets
\* no exception escape.
C10_StatusAlways ==
    call # NoCall => ~escaped /\ "status" \in DOMAIN result

\* ------------------------------------------------------------------------
\* Properties of the structure analysis and of extract_all_data
\* ------------------------------------------------------------------------
\* the sheet of workbook wb called nm
SheetOf(wb, nm) == wb.sheets[CHOOSE i \in DOMAIN wb.sheets : SheetNames[i] = nm]

\* the entry of one sheet isolates a failure of that sheet
IsolatedEntry(sd, entry) ==
    /\ "is_valid" \in DOMAIN entry
    /\ sd.fails = "always" => ~entry.is_valid /\ "error" \in DOMAIN entry
    /\ sd.fails # "always" =>
          /\ "error" \notin DOMAIN entry
          /\ entry.header_row = _detect_header_row(sd.grid, DefaultMaxCheck)[1]
          /\ entry.columns = ReadExcel(sd.grid, entry.header_row, AnalysisSampleRows).cols

IsolatedStructure(wb, structure) ==
    /\ DOMAIN structure.sheets = Range(NamesOf(wb))
    /\ structure.total_sheets = Len(wb.sheets)
    /\ \A nm \in DOMAIN structure.sheets : IsolatedEntry(SheetOf(wb, nm), structure.sheets[nm])

DSSuccess ==
    /\ call.obj = "data_sources"
    /\ "status" \in DOMAIN result
    /\ result.status = "success"

\* C11: _analyze_file_structure gives one entry per sheet name of the file;
\* the entry of a sheet whose reading fails has is_valid false and an 'error'
\* field, and every other sheet of the file has its own analysed entry, both
\* for every workbook of the directory and in the structure a call returned.
C11_SheetAnalysisIsolated ==
    /\ call = NoCall =>
          \A f \in DOMAIN disk :
              disk[f].opens => IsolatedStructure(disk[f], _analyze_file_structure(disk[f]))
    /\ DSSuccess => IsolatedStructure(disk[call.filename], result.structure)

C11_Witness ==
    /\ DSSuccess
    /\ \E a, b \in DOMAIN result.structure.sheets :
          /\ "error" \in DOMAIN result.structure.sheets[a]
          /\ result.structure.sheets[b].is_valid
          /\ b \in DOMAIN result.data

\* C12: when extract_all_data has passed validation and opened the file, a
\* failure while extracting one valid sheet stays with that sheet: the call
\* returns status "success" and the data of every valid sheet that can be
\* extracted.
C12_ExtractionIsolated ==
    /\ call.obj = "data_sources"
    /\ _validate_file(disk, call.filename)
    /\ disk[call.filename].opens
    => /\ "status" \in DOMAIN result
       /\ result.status = "success"
       /\ \A i \in ValidSheets(disk[call.filename]) :
             ~ExtractRaises(disk[call.filename].sheets[i]) => SheetNames[i] \in DOMAIN result.data

\* C13: the extractor keeps nothing between calls: after any sequence of
\* calls loaded_files is what __init__ left (empty), and the result of
\* analyze_excel_structure() without a file name is the one a new object gives.
C13_NoRetainedState ==
    /\ loaded_files = <<>>
    /\ call.method = "analyze_excel_structure" /\ call.filename = NoFilename =>
          result = IF call.obj = "processors"
                   THEN ProcAnalyzeResult(disk, <<>>, NoFilename)
                   ELSE SharedAnalyzeResult(disk, NoFilename)

\* the extensions the specification lists as supported
SupportedExtensions == {".xlsx", ".xls", ".xlsm"}

\* C14: for a file that exists, extract_all_data goes on to open and analyse
\* it exactly when its lower-cased extension is .xlsx, .xls or .xlsm; any other
\* extension gives status "error" before anything is read.
C14_SupportedExtensionsAccepted ==
    call.obj = "data_sources" /\ call.filename \in DOMAIN disk =>
        /\ opened <=> Lower(call.filename.suffix) \in SupportedExtensions
        /\ _validate_file(disk, call.filename) <=> Lower(call.filename.suffix) \in SupportedExtensions
        /\ ~opened => result.status = "error"

\* ------------------------------------------------------------------------
\* Properties of the validation report against the cleaner
\* ------------------------------------------------------------------------
\* the columns of t that hold at least one non-null cell
NonNullColumns(t) ==
    {j \in DOMAIN t.cols : \E i \in DOMAIN t.rows : ~IsNull(t.rows[i].cells[j])}

\* C15: for a table with at least one row, empty_columns of the report is the
\* number of columns whose every cell is null, and the cleaned table has
\* exactly the other columns, in order, under their stripped names: none of
\* the all-null columns and every column holding a non-null cell.
C15_EmptyColumnsDropped ==
    /\ op = "validate" /\ NRows(arg) > 0 =>
          report.empty_columns = NCols(arg) - Cardinality(NonNullColumns(arg))
    /\ op = "clean" /\ NRows(arg) > 0 =>
          /\ NCols(out) = NCols(arg) - _validate_dataframe(arg).empty_columns
          /\ out.cols = Filter(TrimColumns(arg).cols, NonNullColumns(arg), 1)

C15_Witness ==
    /\ op = "clean"
    /\ NRows(arg) = MaxRows
    /\ _validate_dataframe(arg).empty_columns = 1
    /\ NCols(out) = NCols(arg) - 1
    /\ NCols(out) > 0
    /\ \E j \in DOMAIN arg.cols, i \in DOMAIN arg.rows :
          IsNull(arg.rows[i].cells[j]) /\ j \in NonNullColumns(arg)

\* t holds none of the null markers and no row whose cells are all null
NoMarkersNoEmptyRows(t) ==
    /\ \A i \in DOMAIN t.rows : ~RowAllNull(t.rows[i])
    /\ \A i \in DOMAIN t.rows : \A j \in DOMAIN t.cols :
          ~(t.rows[i].cells[j].t = "str" /\ t.rows[i].cells[j].s \in null_values)

\* the rows of t up to equality: one representative (the first) per class
DistinctRows(t) == {i \in DOMAIN t.rows : \A k \in 1..(i - 1) : ~RowEq(t.rows[k], t.rows[i])}

\* C16 as stated: duplicate_rows is total_rows minus the number of distinct
\* rows, and a table free of null markers and empty rows keeps exactly
\* total_rows - duplicate_rows rows through cleaning.
C16_DuplicateRowsRemoved ==
    /\ op = "validate" =>
          report.duplicate_rows = report.total_rows - Cardinality(DistinctRows(arg))
    /\ op = "clean" /\ NoMarkersNoEmptyRows(arg) =>
          NRows(out) = NRows(arg) - _validate_dataframe(arg).duplicate_rows

\* C16 amended: duplicate_rows is total_rows minus the number of distinct
\* rows; cleaning never keeps more than total_rows - duplicate_rows rows, and
\* keeps exactly that many when the table is free of null markers and empty
\* rows and none of its columns is a flag column.
C16_DuplicateRowsRemovedNoFlags ==
    /\ op = "validate" =>
          report.duplicate_rows = report.total_rows - Cardinality(DistinctRows(arg))
    /\ op = "clean" =>
          NRows(out) <= NRows(arg) - _validate_dataframe(arg).duplicate_rows
    /\ op = "clean" /\ NoMarkersNoEmptyRows(arg)
          /\ (\A j \in DOMAIN arg.cols : ~IsFlagColumn(arg.cols[j])) =>
          NRows(out) = NRows(arg) - _validate_dataframe(arg).duplicate_rows

C16_Witness ==
    /\ op = "clean"
    /\ NoMarkersNoEmptyRows(arg)
    /\ \A j \in DOMAIN arg.cols : ~IsFlagColumn(arg.cols[j])
    /\ _validate_dataframe(arg).duplicate_rows = 1
    /\ NRows(out) = NRows(arg) - 1

\* C16, the case that separates the two statements: two rows that differ only
\* in the spelling of a flag inside its domain are not duplicates for the
\* report and are one row after cleaning.
C16_FlagSpellingsMerge ==
    /\ op = "clean"
    /\ NoMarkersNoEmptyRows(arg)
    /\ \A i \in DOMAIN arg.rows : \A j \in DOMAIN arg.cols : arg.rows[i].cells[j] \in FlagTrueTokens
    /\ _validate_dataframe(arg).duplicate_rows = 0
    /\ NRows(arg) = 2 /\ NRows(out) = 1

\* ------------------------------------------------------------------------
\* Properties of the null standardization
\* ------------------------------------------------------------------------
\* the tokens listed as null markers
ListedNullTokens == {"", " ", "N/A", "n/a", "NA", "null", "NULL", "None", "-"}

IsListedToken(c) == c.t = "str" /\ c.s \in ListedNullTokens

\* C17: _standardize_null_values turns into null exactly the cells equal to
\* one of the listed tokens, leaves every other cell (and the shape and the
\* column names) as it was, and its output holds none of the listed tokens.
C17_NullMarkersExactly ==
    op = "nulls" =>
        /\ out.cols = arg.cols
        /\ NRows(out) = NRows(arg)
        /\ \A i \in DOMAIN arg.rows : \A j \in DOMAIN arg.cols :
              /\ IsListedToken(arg.rows[i].cells[j]) => IsNull(out.rows[i].cells[j])
              /\ ~IsListedToken(arg.rows[i].cells[j]) =>
                    out.rows[i].cells[j] = arg.rows[i].cells[j]
              /\ ~IsListedToken(out.rows[i].cells[j])

C17_Witness ==
    /\ op = "nulls"
    /\ \E i \in DOMAIN arg.rows : \E j, k \in DOMAIN arg.cols :
          /\ arg.rows[i].cells[j] = Str("NA") /\ IsNull(out.rows[i].cells[j])
          /\ arg.rows[i].cells[k] \in {Str("na"), Str("Null"), Str("NONE"), Str("--")}
          /\ out.rows[i].cells[k] = arg.rows[i].cells[k]

\* ------------------------------------------------------------------------
\* Properties of the choice and the value of the confidence
\* ------------------------------------------------------------------------
\* candidate rows (as positions of outcomes) that were scored
Accepted == {i \in DOMAIN outcomes : outcomes[i].kind = "scored"}

SameRat(x, y) == x.num * y.den = y.num * x.den

\* the result is the earliest of the accepted candidates of highest confidence
EarliestBest ==
    /\ best_row + 1 \in Accepted
    /\ SameRat(outcomes[best_row + 1].conf, best_confidence)
    /\ \A i \in Accepted : ~Greater(outcomes[i].conf, best_confidence)
    /\ \A i \in Accepted : i < best_row + 1 => Greater(best_confidence, outcomes[i].conf)

\* C18 as stated: whenever some candidate was accepted, the result is the
\* earliest accepted candidate of highest confidence.
C18_ReturnsEarliestBest ==
    dpc = "done" /\ Accepted # {} => EarliestBest

\* C18 amended: when some accepted candidate has a confidence above 0.0 the
\* result is the earliest accepted candidate of highest confidence; otherwise
\* it is (0, 0.0), whether or not row 0 was accepted.
C18_EarliestBestAboveZero ==
    dpc = "done" =>
        IF \E i \in Accepted : outcomes[i].conf.num > 0 THEN EarliestBest ELSE Fallback

C18_Witness ==
    /\ dpc = "done"
    /\ best_confidence.num > 0
    /\ \E i, k \in Accepted :
          /\ i = best_row + 1 /\ i < k
          /\ SameRat(outcomes[k].conf, best_confidence)
    /\ \E i \in Accepted : i < best_row + 1

\* the sample that candidate row i - 1 was scored on
SampleOf(i) == ReadExcel(sheet, i - 1, SampleRows)

RealNames(t) == Cardinality({j \in DOMAIN t.cols : ~StartsWith(t.cols[j], Unnamed)})
NonNullCells(t) ==
    Cardinality({<<i, j>> \in (DOMAIN t.rows) \X (DOMAIN t.cols) : ~IsNull(t.rows[i].cells[j])})

\* c = 0.4 * real/w + 0.3 * types/w + 0.3 * nonnull/(n*w), w columns, n rows
IsWeightedSum(c, t) ==
    c.num * (10 * NCols(t) * NRows(t))
        = c.den * (4 * RealNames(t) * NRows(t) + 3 * Cardinality(Dtypes(t)) * NRows(t)
                      + 3 * NonNullCells(t))

\* c = 0.4 * real/w
IsFirstTermOnly(c, t) == c.num * (10 * NCols(t)) = c.den * (4 * RealNames(t))

\* C19: the confidence of every accepted candidate is 0.4 * (fraction of
\* names not starting with 'Unnamed') + 0.3 * (distinct dtypes / columns)
\* + 0.3 * (non-null cells / cells of the sample), and only the first term
\* when the sample has no row.
C19_ConfidenceFormula ==
    \A i \in Accepted :
        LET t == SampleOf(i)
            c == outcomes[i].conf
        IN /\ c.den > 0
           /\ NRows(t) > 0 => IsWeightedSum(c, t)
           /\ NRows(t) = 0 => IsFirstTermOnly(c, t)

C19_Witness ==
    /\ \E i \in Accepted :
          LET t == SampleOf(i)
          IN /\ NRows(t) > 0
             /\ 0 < RealNames(t) /\ RealNames(t) < NCols(t)
             /\ Cardinality(Dtypes(t)) > 1
             /\ 0 < NonNullCells(t) /\ NonNullCells(t) < NRows(t) * NCols(t)
    /\ \E i \in Accepted : NRows(SampleOf(i)) = 0 /\ RealNames(SampleOf(i)) > 0

\* ------------------------------------------------------------------------
\* Ranges of the detected header row and of its confidence
\* ------------------------------------------------------------------------
InUnitInterval(c) == c.den > 0 /\ 0 <= c.num /\ c.num <= c.den

\* the SheetStructure _analyze_sheet builds for the sheet under detection
StructureOfSheet == _analyze_sheet([grid |-> sheet, fails |-> "never"])

\* the detection ran on a reader without a failure of its own: a candidate
\* raised only where the header row lies past the sheet
ReaderSound == \A i \in DOMAIN outcomes : outcomes[i].kind = "raise" => ReadRaises(sheet, i - 1)

\* C20: the row _detect_header_row returns lies in [0, max_check) and its
\* confidence in [0.0, 1.0], and so do header_row (with the default
\* max_check) and header_confidence of the SheetStructure of every sheet
\* that is analysed without error.
C20_HeaderRowAndConfidenceRanges ==
    /\ 0 <= best_row /\ best_row < max_check
    /\ InUnitInterval(best_confidence)
    /\ dpc = "done" /\ ReaderSound =>
          LET s == StructureOfSheet
          IN "error" \notin DOMAIN s =>
                /\ 0 <= s.header_row
                /\ s.header_row < DefaultMaxCheck
                /\ InUnitInterval(s.header_confidence)

C20_Witness ==
    /\ dpc = "done"
    /\ ReaderSound
    /\ best_row > 0 /\ best_row = max_check - 1
    /\ best_confidence.num = best_confidence.den
    /\ LET s == StructureOfSheet
       IN /\ "error" \notin DOMAIN s
          /\ s.header_row = best_row
          /\ s.header_confidence.num = s.header_confidence.den

\* ------------------------------------------------------------------------
\* Value of the quality score
\* ------------------------------------------------------------------------
\* the rows of t whose cells are all null, counted cell by cell
FullyNullRows(t) ==
    Cardinality({i \in DOMAIN t.rows : \A j \in DOMAIN t.cols : IsNull(t.rows[i].cells[j])})

\* 10 * rows * cols * (1.0 - (0.4 * null_ratio + 0.3 * duplicate_ratio
\* + 0.3 * empty_row_ratio))
TenfoldScore(t) ==
    10 * NRows(t) * NCols(t)
        - (4 * (NRows(t) * NCols(t) - NonNullCells(t))
           + 3 * NCols(t) * (NRows(t) - Cardinality(DistinctRows(t)))
           + 3 * NCols(t) * FullyNullRows(t))

\* C21: for a table with at least one row and one column the score is
\* 1.0 - (0.4 * null cells / cells + 0.3 * duplicate rows / rows
\* + 0.3 * fully-null rows / rows) clamped to [0, 1], and data_quality_score
\* of the report is the value _calculate_quality_score gives for that table.
C21_QualityScoreFormula ==
    op = "validate" /\ NRows(arg) > 0 /\ NCols(arg) > 0 =>
        LET q == report.data_quality_score
            expected == IF TenfoldScore(arg) < 0 THEN 0 ELSE TenfoldScore(arg)
        IN /\ ~q.raised
           /\ q.den > 0
           /\ q.num * (10 * NRows(arg) * NCols(arg)) = q.den * expected
           /\ expected <= 10 * NRows(arg) * NCols(arg)
           /\ q = _calculate_quality_score(arg)

C21_Witness ==
    /\ op = "validate"
    /\ NRows(arg) = MaxRows /\ NCols(arg) = MaxCols
    /\ NonNullCells(arg) > 0
    /\ FullyNullRows(arg) > 0
    /\ report.duplicate_rows = 0
    /\ 0 < report.data_quality_score.num
    /\ report.data_quality_score.num < report.data_quality_score.den

\* the entry of sheet sd is valid exactly when the sample read at its header
\* row has more than one column and at least one row, and never when the
\* analysis failed
ValidIffSample(sd, entry) ==
    /\ "error" \in DOMAIN entry => ~entry.is_valid
    /\ sd.fails = "always" => ~entry.is_valid
    /\ "error" \notin DOMAIN entry =>
          LET sample == ReadExcel(sd.grid, entry.header_row, AnalysisSampleRows)
          IN entry.is_valid <=> (Len(sample.cols) > 1 /\ Len(sample.rows) > 0)

\* C22: is_valid of a SheetStructure is true if and only if the sample read at
\* the detected header row has more than one column and at least one data
\* row, and it is false whenever the analysis of the sheet failed, for every
\* sheet of the directory and in every structure a call returned.
C22_ValidIffColumnsAndRows ==
    /\ call = NoCall =>
          \A f \in DOMAIN disk : \A i \in DOMAIN disk[f].sheets :
              ValidIffSample(disk[f].sheets[i], _analyze_sheet(disk[f].sheets[i]))
    /\ DSSuccess =>
          \A nm \in DOMAIN result.structure.sheets :
              ValidIffSample(SheetOf(disk[call.filename], nm), result.structure.sheets[nm])

C22_Witness ==
    /\ DSSuccess
    /\ \E a, b \in DOMAIN result.structure.sheets :
          /\ result.structure.sheets[a].is_valid
          /\ "error" \notin DOMAIN result.structure.sheets[b]
          /\ ~result.structure.sheets[b].is_valid
          /\ Len(result.structure.sheets[b].columns) > 1

\* ------------------------------------------------------------------------
\* Header detection and extraction are separate steps
\* ------------------------------------------------------------------------
SharedExtract == call.obj = "shared" /\ call.method = "extract_excel_data"

\* C23: extract_excel_data with an explicit header_row (0 included) calls no
\* header detector and reads the sheet with exactly that row as header; with
\* header_row absent it runs the detector; and the table extract_all_data
\* stores for a sheet is the read at the header row of its structure with no
\* cap on the rows.
C23_SuppliedHeaderNotRedetected ==
    /\ SharedExtract /\ call.header_row # NoHeader =>
          /\ ~detected
          /\ result.status = "success" =>
                LET sd == disk[call.filename].sheets[1]
                    frame == ReadExcel(sd.grid, call.header_row, call.max_rows)
                IN /\ result.header_row_used = call.header_row + 1
                   /\ result.columns = TrimColumns(frame).cols
                   /\ result.rows_extracted = Len(frame.rows)
    /\ SharedExtract /\ call.header_row = NoHeader /\ call.filename \in DOMAIN disk => detected
    /\ DSSuccess =>
          \A nm \in DOMAIN result.data :
              LET grid == SheetOf(disk[call.filename], nm).grid
                  h == result.structure.sheets[nm].header_row
              IN /\ result.data[nm].dataframe.cols = HeaderLabels(grid[h + 1])
                 /\ Len(result.data[nm].dataframe.rows) = Len(grid) - (h + 1)

C23_Witness ==
    /\ SharedExtract
    /\ call.header_row = 0
    /\ ~detected
    /\ result.status = "success"
    /\ result.header_row_used = 1
    /\ SharedDetectHeaderRow(disk[call.filename]) = 1

\* ------------------------------------------------------------------------
\* Order and frame of the cleaner
\* ------------------------------------------------------------------------
\* the cells of t after the two cell-wise steps of the pipeline
CellwiseSteps(t) == _normalize_flags(_standardize_null_values(t))

\* C24: the rows of the cleaned table are rows of the input in their input
\* order (their index labels increase), its columns are columns of the input
\* in their input order, and every cell sits under the column and in the row
\* it came from.
C24_CleanKeepsOrder ==
    op = "clean" =>
        LET keep == NonNullColumns(arg)
        IN /\ out.cols = Filter(TrimColumns(arg).cols, keep, 1)
           /\ \A i \in DOMAIN out.rows : out.rows[i].idx \in DOMAIN arg.rows
           /\ \A i, k \in DOMAIN out.rows : i < k => out.rows[i].idx < out.rows[k].idx
           /\ \A i \in DOMAIN out.rows :
                 out.rows[i].cells
                     = Filter(CellwiseSteps(arg).rows[out.rows[i].idx].cells, keep, 1)

C24_Witness ==
    /\ op = "clean"
    /\ NRows(out) = MaxRows /\ NCols(out) = MaxCols
    /\ out.rows[1].cells # out.rows[2].cells
    /\ out.rows[1].cells[1] # out.rows[1].cells[2]
    /\ out.cols # arg.cols

\* ------------------------------------------------------------------------
\* Content of a success result of extract_all_data
\* ------------------------------------------------------------------------
\* C25: in a success result the keys of 'data' are exactly the sheet names
\* whose structure is valid; each entry holds the table read, the report of
\* that table and the cleaning of that table, whatever the score; and a call
\* whose reads all succeed is a success whatever the scores are.
C25_DataForEveryValidSheet ==
    /\ DSSuccess =>
          /\ DOMAIN result.data
                = {nm \in DOMAIN result.structure.sheets : result.structure.sheets[nm].is_valid}
          /\ \A nm \in DOMAIN result.data :
                /\ DOMAIN result.data[nm] = {"dataframe", "validated", "cleaned"}
                /\ result.data[nm].dataframe
                      = ReadExcel(SheetOf(disk[call.filename], nm).grid,
                                  result.structure.sheets[nm].header_row, 0)
                /\ result.data[nm].validated = _validate_dataframe(result.data[nm].dataframe)
                /\ result.data[nm].cleaned = _clean_dataframe(result.data[nm].dataframe)
    /\ call.obj = "data_sources" /\ opened /\ disk[call.filename].opens
          /\ (\A i \in DOMAIN disk[call.filename].sheets :
                 disk[call.filename].sheets[i].fails = "never")
          => result.status = "success"

C25_Witness ==
    /\ DSSuccess
    /\ \E nm \in DOMAIN result.data :
          result.data[nm].validated.data_quality_score.num
              < result.data[nm].validated.data_quality_score.den
    /\ \E nm \in DOMAIN result.structure.sheets : nm \notin DOMAIN result.data

C27_NoEmptyRowOrColumnLeft ==
    op = "clean" =>
        /\ \A i \in DOMAIN out.rows : ~RowAllNull(out.rows[i])
        /\ \A j \in DOMAIN out.cols : ~ColAllNull(out, j)

\* the position in t of each column that cleaning keeps, in order
KeptPositions(t) == Filter([j \in DOMAIN t.cols |-> j], NonNullColumns(t), 1)

\* C28: in the output of _clean_dataframe a column named Multigrado, Unitaria
\* or Bidocente holds only true, false or null, whatever the spelling of its
\* header in the input, and the cells of every other column are those of the
\* input after null standardization alone.
C28_FlagColumnsByTrimmedName ==
    op = "clean" =>
        \A j \in DOMAIN out.cols : \A i \in DOMAIN out.rows :
            IF out.cols[j] \in Range(flag_columns)
            THEN out.rows[i].cells[j] \in {Bool(TRUE), Bool(FALSE), Null}
            ELSE out.rows[i].cells[j]
                    = StandardizeCell(arg.rows[out.rows[i].idx].cells[KeptPositions(arg)[j]])

\* ------------------------------------------------------------------------
\* The header detectors of the shared extractor
\* ------------------------------------------------------------------------
\* candidate rows whose read failed
FailedRows == {i - 1 : i \in {k \in DOMAIN outcomes : outcomes[k].kind = "raise"}}

\* rows of [0, max_check) that qualify when their read does not fail
QualifyingRows ==
    {r \in 0..(max_check - 1) :
        /\ r \notin FailedRows
        /\ ~ReadRaises(sheet, r)
        /\ SharedQualifies(ReadExcel(sheet, r, 2))}

\* C29: the shared detectors return the smallest row of [0, max_check) whose
\* read gives more than one column with under 30% 'Unnamed' names, skipping a
\* candidate whose read fails, and 0 when no row qualifies.
C29_SharedDetectSkipsFailures ==
    dpc = "done" =>
        /\ QualifyingRows = {} => best_row = 0
        /\ QualifyingRows # {} =>
              /\ best_row \in QualifyingRows
              /\ \A r \in QualifyingRows : best_row <= r

\* ------------------------------------------------------------------------
\* loaded_files of the processors extractor
\* ------------------------------------------------------------------------
\* C30: a call of the processors extract_excel_data that returns an error
\* result leaves loaded_files as it was; one that returns a success result
\* binds loaded_files[filename] to the table just read and changes no other
\* key.
C30_LoadedFilesOnlyOnSuccess ==
    [][call'.obj = "processors" /\ call'.method = "extract_excel_data" =>
          IF "error" \in DOMAIN result'
          THEN loaded_files' = loaded_files
          ELSE /\ DOMAIN loaded_files' = DOMAIN loaded_files \cup {call'.filename}
               /\ loaded_files'[call'.filename].data
                     = ProcFrame(disk[call'.filename], call'.max_rows, call'.header_row)
               /\ \A f \in DOMAIN loaded_files :
                     f # call'.filename => loaded_files'[f] = loaded_files[f]]_vars

====
